---- MODULE Spec2Model ----
(***************************************************************************)
(* Notes CRUD API: the two NotesService implementations of the repository  *)
(* over one relational table reached through a TypeORM Repository<Note>.   *)
(*                                                                         *)
(*   "strict" : src/src/modules/notes/notes.controller.ts, lines 57-95     *)
(*              (findOne throws NotFoundException, update is               *)
(*               findOne + Object.assign + save, remove is                 *)
(*               findOne + repository.remove, findAll has a LIKE filter)   *)
(*   "lax"    : src/unnamed/part_000 (src/notes/notes.service.ts)          *)
(*              (findOne returns the repository's null, update is          *)
(*               repository.update + findOne, remove is repository.delete, *)
(*               findAll takes no filter)                                  *)
(*                                                                         *)
(* A Note is a record whose domain is the set of its non-NULL columns; a   *)
(* payload (DTO, Partial<Note>) is a record whose domain is the set of the *)
(* properties the caller sent.  The table is a set of rows.                *)
(***************************************************************************)
EXTENDS Integers, Sequences, FiniteSets, TLC

VARIABLES variant, rows, nextId, call

vars == <<variant, rows, nextId, call>>

\* cap on the ids the store's generator hands out (the generator itself is unbounded)
MaxId == 2

Variants == {"strict", "lax"}

\* one client issuing one request after another
Clients == {"c1"}
\* independent HTTP requests, each one call, handled concurrently
Requests == {"r1", "r2", "r3"}
Callers == Clients \cup Requests

Ids == 1..MaxId
TitleValues == {<<"a">>, <<"_">>}
ContentValues == {"x"}
Fields == {"id", "title", "content"}

IdParts == {<<>>} \cup {[id |-> i] : i \in Ids}
TitleParts == {<<>>} \cup {[title |-> t] : t \in TitleValues}
ContentParts == {<<>>} \cup {[content |-> c] : c \in ContentValues}

\* request bodies of POST /notes and PUT /notes/:id: any subset of the properties
Payloads == {a @@ b @@ c : a \in IdParts, b \in TitleParts, c \in ContentParts}
\* request bodies of the concurrent requests: plain field updates
FieldPayloads == {u \in Payloads : "id" \notin DOMAIN u /\ DOMAIN u # {}}
\* FilterNoteDto: title absent, the empty string, or a search string
Filters == {<<>>} \cup {[title |-> s] : s \in {<<>>, <<"a">>, <<"_">>, <<"%">>}}

----------------------------------------------------------------------------
(* Responses.  kind: "note" (notes = {the note}), "list", "void", "null",   *)
(* "NotFound" (NotFoundException), "error" (an error raised by the ORM).    *)

NoVal == [kind |-> "none", notes |-> {}]
NoteVal(n) == [kind |-> "note", notes |-> {n}]
ListVal(s) == [kind |-> "list", notes |-> s]
VoidVal == [kind |-> "void", notes |-> {}]
NullVal == [kind |-> "null", notes |-> {}]
NotFoundVal == [kind |-> "NotFound", notes |-> {}]
ErrorVal == [kind |-> "error", notes |-> {}]

NoNote == <<>>
IdleCall == [pc |-> "idle", op |-> "none", id |-> 0, u |-> <<>>, note |-> NoNote, val |-> NoVal]

----------------------------------------------------------------------------
(* The table and the Repository<Note> operations the services call.        *)

Max(a, b) == IF a >= b THEN a ELSE b

Has(t, i) == \E n \in t : n.id = i
Row(t, i) == CHOOSE n \in t : n.id = i
IdsOf(t) == {n.id : n \in t}

\* Object.assign(target, source): own properties of source overwrite target's
Merge(n, u) == [f \in DOMAIN n \cup DOMAIN u |-> IF f \in DOMAIN u THEN u[f] ELSE n[f]]

\* repoSave that hands back the entity as it was passed in, without the
\* generated id
repoSave_noGeneratedId(t, e, defined, nid) ==
  IF "id" \notin DOMAIN e
  THEN LET n == e @@ [id |-> nid]
       IN [rows |-> t \cup {n}, entity |-> e, nextId |-> nid + 1]
  ELSE IF Has(t, e.id)
       THEN LET old == Row(t, e.id)
                kept == [f \in DOMAIN old \ defined |-> old[f]]
            IN [rows |-> (t \ {old}) \cup {Merge(kept, e)}, entity |-> e, nextId |-> nid]
       ELSE [rows |-> t \cup {e}, entity |-> e, nextId |-> Max(nid, e.id + 1)]

\* Repository.save(entity): INSERT when the entity has no id or no row has its
\* id, UPDATE of that row otherwise.  defined = the properties that are not
\* undefined on the entity (all columns for an entity loaded from the table,
\* the payload's properties for one built by Repository.create); undefined
\* properties are left as they are in an existing row.
repoSave(t, e, defined, nid) ==
  IF "id" \notin DOMAIN e
  THEN LET n == e @@ [id |-> nid]
       IN [rows |-> t \cup {n}, entity |-> n, nextId |-> nid + 1]
  ELSE IF Has(t, e.id)
       THEN LET old == Row(t, e.id)
                kept == [f \in DOMAIN old \ defined |-> old[f]]
            IN [rows |-> (t \ {old}) \cup {Merge(kept, e)}, entity |-> e, nextId |-> nid]
       ELSE [rows |-> t \cup {e}, entity |-> e, nextId |-> Max(nid, e.id + 1)]

\* repoUpdate as an upsert: a row is inserted when none has the id
repoUpdate_upsert(t, i, u, nid) ==
  IF DOMAIN u = {}
  THEN [rows |-> t, ok |-> FALSE, nextId |-> nid]
  ELSE IF ~ Has(t, i)
       THEN [rows |-> t \cup {Merge([id |-> i], u)}, ok |-> TRUE, nextId |-> Max(nid, i + 1)]
       ELSE LET old == Row(t, i)
                m == Merge(old, u)
            IN IF m.id # i /\ Has(t, m.id)
               THEN [rows |-> t, ok |-> FALSE, nextId |-> nid]
               ELSE [rows |-> (t \ {old}) \cup {m}, ok |-> TRUE,
                     nextId |-> Max(nid, m.id + 1)]

\* Repository.update(id, partial): UPDATE note SET <partial> WHERE id = :id.
\* No SET column: UpdateValuesMissingError.  SET id to another row's id:
\* primary-key violation.  No row with that id: nothing happens.
repoUpdate(t, i, u, nid) ==
  IF DOMAIN u = {}
  THEN [rows |-> t, ok |-> FALSE, nextId |-> nid]
  ELSE IF ~ Has(t, i)
       THEN [rows |-> t, ok |-> TRUE, nextId |-> nid]
       ELSE LET old == Row(t, i)
                m == Merge(old, u)
            IN IF m.id # i /\ Has(t, m.id)
               THEN [rows |-> t, ok |-> FALSE, nextId |-> nid]
               ELSE [rows |-> (t \ {old}) \cup {m}, ok |-> TRUE,
                     nextId |-> Max(nid, m.id + 1)]

\* Repository.delete(id) and Repository.remove(entity): DELETE WHERE id = :id
repoDelete(t, i) == {n \in t : n.id # i}

\* SQLite folds ASCII case in LIKE
Fold(c) == IF c = "A" THEN "a" ELSE c

\* s LIKE p: % matches any run of characters, _ any single character
RECURSIVE Like(_, _)
Like(s, p) ==
  IF p = <<>> THEN s = <<>>
  ELSE IF Head(p) = "%"
       THEN Like(s, Tail(p)) \/ (s # <<>> /\ Like(Tail(s), p))
       ELSE /\ s # <<>>
            /\ (Head(p) = "_" \/ Fold(Head(p)) = Fold(Head(s)))
            /\ Like(Tail(s), Tail(p))

\* createQueryBuilder('note') [.andWhere('note.title LIKE :title', ...)] .getMany()
queryNotes(t, f) ==
  IF "title" \in DOMAIN f /\ f.title # <<>>
  THEN {n \in t : "title" \in DOMAIN n /\ Like(n.title, <<"%">> \o f.title \o <<"%">>)}
  ELSE t

----------------------------------------------------------------------------
(* Callers.                                                                *)

Ready(p) == call[p].pc = "idle" \/ (p \in Clients /\ call[p].pc = "done")

Finish(p, op, i, u, v) ==
  call' = [call EXCEPT ![p] = [pc |-> "done", op |-> op, id |-> i, u |-> u,
                               note |-> NoNote, val |-> v]]

Pending(p, pc, op, i, u, n) ==
  call' = [call EXCEPT ![p] = [pc |-> pc, op |-> op, id |-> i, u |-> u,
                               note |-> n, val |-> NoVal]]

Init ==
  /\ variant \in Variants
  /\ rows = {}
  /\ nextId = 1
  /\ call = [p \in Callers |-> IdleCall]

----------------------------------------------------------------------------
(* NotesService of src/modules/notes ("strict").                           *)

Modules_create(p, u) ==
  /\ variant = "strict"
  /\ Ready(p)
  /\ "id" \in DOMAIN u \/ nextId <= MaxId
  /\ LET r == repoSave(rows, u, DOMAIN u, nextId)
     IN /\ rows' = r.rows
        /\ nextId' = r.nextId
        /\ Finish(p, "create", 0, u, NoteVal(r.entity))
  /\ UNCHANGED variant

Modules_findAll(p, f) ==
  /\ variant = "strict"
  /\ Ready(p)
  /\ Finish(p, "findAll", 0, f, ListVal(queryNotes(rows, f)))
  /\ UNCHANGED <<variant, rows, nextId>>

Modules_findOne(p, i) ==
  /\ variant = "strict"
  /\ Ready(p)
  /\ Finish(p, "findOne", i, <<>>, IF Has(rows, i) THEN NoteVal(Row(rows, i)) ELSE NotFoundVal)
  /\ UNCHANGED <<variant, rows, nextId>>

\* const note = await this.findOne(id)
Modules_update_findOne(p, i, u) ==
  /\ variant = "strict"
  /\ Ready(p)
  /\ IF Has(rows, i)
     THEN Pending(p, "save", "update", i, u, Row(rows, i))
     ELSE Finish(p, "update", i, u, NotFoundVal)
  /\ UNCHANGED <<variant, rows, nextId>>

\* Modules_update_save with a version check: the save is refused when the row
\* is no longer the one that was fetched
Modules_update_save_versioned(p) ==
  /\ variant = "strict"
  /\ call[p].pc = "save"
  /\ IF Has(rows, call[p].id) /\ Row(rows, call[p].id) = call[p].note
     THEN LET m == Merge(call[p].note, call[p].u)
              r == repoSave(rows, m, Fields, nextId)
          IN /\ rows' = r.rows
             /\ nextId' = r.nextId
             /\ Finish(p, "update", call[p].id, call[p].u, NoteVal(r.entity))
     ELSE /\ UNCHANGED <<rows, nextId>>
          /\ Finish(p, "update", call[p].id, call[p].u, ErrorVal)
  /\ UNCHANGED variant

\* Object.assign(note, updateNoteDto); return this.notesRepository.save(note)
Modules_update_save(p) ==
  /\ variant = "strict"
  /\ call[p].pc = "save"
  /\ LET m == Merge(call[p].note, call[p].u)
         r == repoSave(rows, m, Fields, nextId)
     IN /\ rows' = r.rows
        /\ nextId' = r.nextId
        /\ Finish(p, "update", call[p].id, call[p].u, NoteVal(r.entity))
  /\ UNCHANGED variant

\* const note = await this.findOne(id)
Modules_remove_findOne(p, i) ==
  /\ variant = "strict"
  /\ Ready(p)
  /\ IF Has(rows, i)
     THEN Pending(p, "remove", "remove", i, <<>>, Row(rows, i))
     ELSE Finish(p, "remove", i, <<>>, NotFoundVal)
  /\ UNCHANGED <<variant, rows, nextId>>

\* await this.notesRepository.remove(note)
Modules_remove_remove(p) ==
  /\ variant = "strict"
  /\ call[p].pc = "remove"
  /\ rows' = repoDelete(rows, call[p].note.id)
  /\ Finish(p, "remove", call[p].id, <<>>, VoidVal)
  /\ UNCHANGED <<variant, nextId>>

----------------------------------------------------------------------------
(* NotesService of src/notes ("lax").                                      *)

Notes_create(p, u) ==
  /\ variant = "lax"
  /\ Ready(p)
  /\ "id" \in DOMAIN u \/ nextId <= MaxId
  /\ LET r == repoSave(rows, u, DOMAIN u, nextId)
     IN /\ rows' = r.rows
        /\ nextId' = r.nextId
        /\ Finish(p, "create", 0, u, NoteVal(r.entity))
  /\ UNCHANGED variant

\* findAll() has no parameter: whatever filter the request carries is dropped
Notes_findAll(p, f) ==
  /\ variant = "lax"
  /\ Ready(p)
  /\ Finish(p, "findAll", 0, f, ListVal(rows))
  /\ UNCHANGED <<variant, rows, nextId>>

Notes_findOne(p, i) ==
  /\ variant = "lax"
  /\ Ready(p)
  /\ Finish(p, "findOne", i, <<>>, IF Has(rows, i) THEN NoteVal(Row(rows, i)) ELSE NullVal)
  /\ UNCHANGED <<variant, rows, nextId>>

\* await this.notesRepository.update(id, note)
Notes_update_update(p, i, u) ==
  /\ variant = "lax"
  /\ Ready(p)
  /\ LET r == repoUpdate(rows, i, u, nextId)
     IN /\ rows' = r.rows
        /\ nextId' = r.nextId
        /\ IF r.ok
           THEN Pending(p, "find", "update", i, u, NoNote)
           ELSE Finish(p, "update", i, u, ErrorVal)
  /\ UNCHANGED variant

\* return this.findOne(id)
Notes_update_findOne(p) ==
  /\ variant = "lax"
  /\ call[p].pc = "find"
  /\ Finish(p, "update", call[p].id, call[p].u,
            IF Has(rows, call[p].id) THEN NoteVal(Row(rows, call[p].id)) ELSE NullVal)
  /\ UNCHANGED <<variant, rows, nextId>>

Notes_remove(p, i) ==
  /\ variant = "lax"
  /\ Ready(p)
  /\ rows' = repoDelete(rows, i)
  /\ Finish(p, "remove", i, <<>>, VoidVal)
  /\ UNCHANGED <<variant, nextId>>

----------------------------------------------------------------------------
(* Spec: one client, one request after another, any payload.               *)

Next ==
  \/ \E p \in Clients, u \in Payloads : Modules_create(p, u)
  \/ \E p \in Clients, f \in Filters : Modules_findAll(p, f)
  \/ \E p \in Clients, i \in Ids : Modules_findOne(p, i)
  \/ \E p \in Clients, i \in Ids, u \in Payloads : Modules_update_findOne(p, i, u)
  \/ \E p \in Clients : Modules_update_save(p)
  \/ \E p \in Clients, i \in Ids : Modules_remove_findOne(p, i)
  \/ \E p \in Clients : Modules_remove_remove(p)
  \/ \E p \in Clients, u \in Payloads : Notes_create(p, u)
  \/ \E p \in Clients, f \in Filters : Notes_findAll(p, f)
  \/ \E p \in Clients, i \in Ids : Notes_findOne(p, i)
  \/ \E p \in Clients, i \in Ids, u \in Payloads : Notes_update_update(p, i, u)
  \/ \E p \in Clients : Notes_update_findOne(p)
  \/ \E p \in Clients, i \in Ids : Notes_remove(p, i)

Spec == Init /\ [][Next]_vars

(* ConcSpec: three requests in flight at once, their repository calls      *)
(* interleaved at the awaits.                                              *)

ConcNext ==
  \/ \E p \in Requests, u \in FieldPayloads : Modules_create(p, u)
  \/ \E p \in Requests, f \in Filters : Modules_findAll(p, f)
  \/ \E p \in Requests, i \in Ids : Modules_findOne(p, i)
  \/ \E p \in Requests, i \in Ids, u \in FieldPayloads : Modules_update_findOne(p, i, u)
  \/ \E p \in Requests : Modules_update_save(p)
  \/ \E p \in Requests, i \in Ids : Modules_remove_findOne(p, i)
  \/ \E p \in Requests : Modules_remove_remove(p)
  \/ \E p \in Requests, u \in FieldPayloads : Notes_create(p, u)
  \/ \E p \in Requests, f \in Filters : Notes_findAll(p, f)
  \/ \E p \in Requests, i \in Ids : Notes_findOne(p, i)
  \/ \E p \in Requests, i \in Ids, u \in FieldPayloads : Notes_update_update(p, i, u)
  \/ \E p \in Requests : Notes_update_findOne(p)
  \/ \E p \in Requests, i \in Ids : Notes_remove(p, i)

ConcSpec == Init /\ [][ConcNext]_vars

TypeOK ==
  /\ variant \in Variants
  /\ nextId \in 1..(MaxId + 1)
  /\ \A n \in rows : "id" \in DOMAIN n /\ n.id \in Ids /\ DOMAIN n \subseteq Fields
  /\ \A p \in Callers : call[p].pc \in {"idle", "save", "remove", "find", "done"}

----------------------------------------------------------------------------
(* Properties.                                                             *)

\* p starts a new call in this step
Started(p) == Ready(p) /\ call'[p] # call[p]

\* sub occurs in s as a contiguous substring
Contains(s, sub) ==
  \E k \in 0..(Len(s) - Len(sub)) : SubSeq(s, k + 1, k + Len(sub)) = sub

\* m has u's value in every field of u and n's value in every other field
MergedFrom(n, u, m) ==
  /\ DOMAIN m = DOMAIN n \cup DOMAIN u
  /\ \A f \in DOMAIN u : m[f] = u[f]
  /\ \A f \in DOMAIN n \ DOMAIN u : m[f] = n[f]

\* C1: getNote(i), updateNote(i, u) and deleteNote(i) on an id i that is not
\* in the store each fail with NotFound (never a value, null or nothing).
C1_AbsentIdFailsNotFound ==
  [][\A p \in Clients :
       (Started(p) /\ call'[p].op \in {"findOne", "update", "remove"}
                   /\ ~ Has(rows, call'[p].id))
       => (call'[p].pc = "done" /\ call'[p].val = NotFoundVal)]_vars

\* C2: updateNote(n.id, u) on a persisted Note n, for every payload u, returns
\* and persists a Note that has u's value in every field of u and n's prior
\* value in every other field.
C2_UpdateMerges ==
  [][\A p \in Clients :
       /\ (call[p].pc = "save" /\ call'[p].pc = "done")
          => /\ call'[p].val.kind = "note"
             /\ \A m \in call'[p].val.notes :
                  m \in rows' /\ MergedFrom(call[p].note, call[p].u, m)
       /\ (Started(p) /\ variant = "lax" /\ call'[p].op = "update"
                      /\ Has(rows, call'[p].id))
          => /\ call'[p].pc = "find"
             /\ Has(rows', call'[p].id)
             /\ MergedFrom(Row(rows, call'[p].id), call'[p].u, Row(rows', call'[p].id))
       /\ (call[p].pc = "find" /\ call'[p].pc = "done" /\ Has(rows, call[p].id))
          => call'[p].val = NoteVal(Row(rows, call[p].id))]_vars

\* C3: createNote(a), a carrying no id of its own, returns a plus an id the
\* store assigned (fresh), and getNote of that id issued right after returns
\* the same Note: a plus the assigned id.
C3_CreateThenGet ==
  [][\A p \in Clients :
       /\ (Started(p) /\ call'[p].op = "create" /\ "id" \notin DOMAIN call'[p].u)
          => /\ call'[p].pc = "done"
             /\ nextId \notin IdsOf(rows)
             /\ call'[p].val = NoteVal(call'[p].u @@ [id |-> nextId])
       /\ (/\ call[p].pc = "done" /\ call[p].op = "create"
           /\ "id" \notin DOMAIN call[p].u
           /\ Started(p) /\ call'[p].op = "findOne"
           /\ \E n \in call[p].val.notes : "id" \in DOMAIN n /\ n.id = call'[p].id)
          => call'[p].val = NoteVal(call[p].u @@ [id |-> call'[p].id])]_vars

\* a getNote has returned the Note that carries the id the store assigned
\* last, with both of its attributes
C3_Witness ==
  \E p \in Clients :
    /\ call[p].pc = "done" /\ call[p].op = "findOne"
    /\ call[p].id = nextId - 1
    /\ call[p].val.kind = "note"
    /\ \E n \in call[p].val.notes : DOMAIN n = Fields /\ n \in rows

\* C4: after deleteNote(n.id) has completed (n.id an id that has been in use),
\* the next getNote(n.id) fails with NotFound and the next listNotes does not
\* contain n.id.
C4_DeleteThenGetNotFound ==
  [][\A p \in Clients :
       (call[p].pc = "done" /\ call[p].op = "remove" /\ call[p].val = VoidVal
        /\ call[p].id < nextId /\ Started(p))
       => /\ (call'[p].op = "findOne" /\ call'[p].id = call[p].id)
             => call'[p].val = NotFoundVal
          /\ call'[p].op = "findAll"
             => call[p].id \notin IdsOf(call'[p].val.notes)]_vars

\* C5: listNotes with title filter s returns exactly the persisted Notes whose
\* title contains s; with no title filter (absent or empty) it returns all.
C5_ListFilterExact ==
  [][\A p \in Clients :
       (Started(p) /\ call'[p].op = "findAll")
       => LET f == call'[p].u
          IN call'[p].val =
               ListVal(IF "title" \in DOMAIN f /\ f.title # <<>>
                       THEN {n \in rows : "title" \in DOMAIN n /\ Contains(n.title, f.title)}
                       ELSE rows)]_vars

\* C6: ids of persisted Notes are unique, and an id enters the table only
\* with the Note a createNote creates: updateNote and deleteNote never bring
\* in an id, so they never give an existing Note another id.
C6_IdsUniqueStoreAssigned ==
  [][/\ \A n1 \in rows', n2 \in rows' : n1.id = n2.id => n1 = n2
     /\ \A i \in IdsOf(rows') \ IdsOf(rows) :
          \E p \in Clients : Started(p) /\ call'[p].op = "create"]_vars

\* C7: interleaved updateNote calls never meet an error or a conflict: the
\* write of each call succeeds whatever has been written since its fetch,
\* the persisted Note is then exactly what that call wrote (strict: its own
\* snapshot merged with its payload), and the call returns a value.
C7_LastWriteWins ==
  [][\A r \in Requests :
       /\ (call[r].pc = "save" /\ call'[r].pc = "done")
          => LET m == Merge(call[r].note, call[r].u)
             IN /\ call'[r].val = NoteVal(m)
                /\ Has(rows', call[r].id) /\ Row(rows', call[r].id) = m
       /\ (Started(r) /\ variant = "lax" /\ call'[r].op = "update"
                      /\ Has(rows, call'[r].id))
          => /\ call'[r].pc = "find"
             /\ Has(rows', call'[r].id)
             /\ Row(rows', call'[r].id) = Merge(Row(rows, call'[r].id), call'[r].u)
       /\ (call[r].pc = "find" /\ call'[r].pc = "done")
          => call'[r].val.kind \in {"note", "null"}]_vars

\* the three requests were one create and two updates of the created Note,
\* both updates returned a Note, and a field that one of them wrote and got
\* back is not in the persisted Note although the other never wrote that
\* field: a lost update
C7_Witness ==
  \E c \in Requests, p \in Requests, q \in Requests :
    /\ c # p /\ c # q /\ p # q
    /\ call[c].pc = "done" /\ call[c].op = "create"
    /\ call[p].pc = "done" /\ call[p].op = "update" /\ call[p].val.kind = "note"
    /\ call[q].pc = "done" /\ call[q].op = "update" /\ call[q].val.kind = "note"
    /\ call[p].id = call[q].id
    /\ \A n \in call[c].val.notes : n.id = call[p].id
    /\ Has(rows, call[p].id)
    /\ Row(rows, call[p].id) \in call[p].val.notes
    /\ \E f \in DOMAIN call[q].u \ DOMAIN call[p].u :
         LET n == Row(rows, call[p].id)
         IN /\ \A m \in call[q].val.notes : f \in DOMAIN m /\ m[f] = call[q].u[f]
            /\ f \notin DOMAIN n \/ n[f] # call[q].u[f]

\* C8: once deleteNote(i) has completed, no Note with id i is in the store in
\* any later state (i was issued by the store and is never issued again),
\* whatever updateNote calls were in flight.
C8_DeletedStaysDeleted ==
  [][\A r \in Requests :
       /\ (call'[r] # call[r] /\ call'[r].pc = "done" /\ call'[r].op = "remove"
           /\ call'[r].val = VoidVal)
          => ~ Has(rows', call'[r].id)
       /\ (call[r].pc = "done" /\ call[r].op = "remove" /\ call[r].val = VoidVal
           /\ call[r].id < nextId /\ ~ Has(rows, call[r].id))
          => ~ Has(rows', call[r].id)]_vars

\* C9: updateNote(i, u) and deleteNote(i) leave every Note with another id as
\* it was (same existence, same fields); getNote and listNotes leave the whole
\* store as it was.
C9_Frame ==
  [][\A p \in Clients :
       call'[p] # call[p]
       => /\ call'[p].op \in {"update", "remove"}
             => {n \in rows : n.id # call'[p].id} = {n \in rows' : n.id # call'[p].id}
          /\ call'[p].op \in {"findOne", "findAll"} => rows' = rows]_vars

\* C10: updateNote(i, u) and deleteNote(i) called with an id that is not in the
\* store leave the store exactly as it was: the call's first step changes no
\* row and leaves no write pending, and the read that may follow changes none.
C10_AbsentIdNoEffect ==
  [][\A p \in Clients :
       /\ (Started(p) /\ call'[p].op \in {"update", "remove"}
                      /\ ~ Has(rows, call'[p].id))
          => /\ rows' = rows
             /\ nextId' = nextId
             /\ call'[p].pc \in {"done", "find"}
       /\ (call[p].pc = "find" /\ call'[p] # call[p]) => rows' = rows]_vars

\* an updateNote with a non-empty payload has come back empty-handed
\* (NotFound or null) from a table that holds other Notes
C10_Witness ==
  \E p \in Clients :
    /\ call[p].pc = "done" /\ call[p].op = "update"
    /\ "id" \notin DOMAIN call[p].u /\ DOMAIN call[p].u # {}
    /\ call[p].val.kind \in {"NotFound", "null"}
    /\ ~ Has(rows, call[p].id)
    /\ rows # {}

====
